---- MODULE Spec2Model ----
(***************************************************************************)
(* Power sensor task (sensor.cpp): a TimedTask that samples a voltage      *)
(* divider pin and a hall-effect current sensor pin on schedule            *)
(* (PSensor::run) and converts the stored raw samples to mV / mA / mW on   *)
(* demand (PSensor::lastReading, voltage, current).                        *)
(*                                                                         *)
(* uint32_t values (millis() time stamps, run times, intervals) are kept   *)
(* at their full 32-bit width as a pair of 16-bit halves [hi, lo], since   *)
(* the arithmetic on them wraps modulo 2^32.                               *)
(***************************************************************************)
EXTENDS Integers, Sequences, FiniteSets, TLC

\* ------------------------------------------------------------------------
\* Bounds of the model
\* ------------------------------------------------------------------------
MaxRuns == 2
MaxReads == 2
MaxLate == 5

\* ------------------------------------------------------------------------
\* Fixed-width integer arithmetic
\* ------------------------------------------------------------------------
W16 == 2^16

U32(h, l) == [hi |-> h, lo |-> l]

Zero32 == U32(0, 0)

\* uint32_t + uint32_t, wrapping modulo 2^32
Add32(a, b) ==
    LET s == a.lo + b.lo
    IN  U32((a.hi + b.hi + (s \div W16)) % W16, s % W16)

\* uint32_t - uint32_t, wrapping modulo 2^32
Sub32(a, b) ==
    LET d == a.lo - b.lo
        borrow == IF d < 0 THEN 1 ELSE 0
    IN  U32((a.hi - b.hi - borrow) % W16, d % W16)

RECURSIVE Times32(_, _)
\* k * a modulo 2^32, by repeated wrapping addition
Times32(k, a) == IF k = 0 THEN Zero32 ELSE Add32(Times32(k - 1, a), a)

\* conversion of an integer to int16_t: the low 16 bits, two's complement
ToInt16(x) == ((x + 2^15) % W16) - 2^15

\* C integer division of a by b > 0: the quotient is truncated toward zero
TruncDiv(a, b) == IF a >= 0 THEN a \div b ELSE -((-a) \div b)

\* ------------------------------------------------------------------------
\* Platform collaborators and construction parameters
\* ------------------------------------------------------------------------
\* values analogRead() may return on the voltage and on the current pin
SampleV == {0, 1023}
SampleI == {0, 512, 522, 1023}
AllSamples == 0..1023

\* values readVcc() may return (mV)
VccSet == {4900, 5000}

\* millis() may advance by these amounts between two scheduler passes
TickSteps == {U32(0, 5)}

\* millis() at construction: power-up, and shortly before the counter wraps
BootClocks == {Zero32, U32(W16 - 1, W16 - 10)}

\* the sensor circuits: <<maxV, mV_A, calI>>
Circuits == {<<12, 100, 0>>, <<48, 66, -3>>}
ReadRates == {U32(0, 10)}

VARIABLES
    clock,      \* millis(): the platform's wrapping millisecond counter
    vccReads,   \* number of readVcc() calls made so far
    adcRet,     \* what analogRead() returned, per pin, in the latest run
    runTime,    \* TimedTask::runTime, the next due time
    pinV, pinI, maxV, mV_A, readRate, id, calI,   \* PSensor configuration
    VpinVal, IpinVal, ts, Vcc,                     \* PSensor sampled state
    VccLocal,   \* the local Vcc of the latest voltage() call
    data,       \* the caller's sensor_data_struct
    status,     \* return value of the latest lastReading call (-1: no call)
    runs,       \* number of run calls so far
    reads,      \* number of lastReading calls since the latest run
    lastNow,    \* the argument of the latest run call
    late,       \* now - runTime at the latest run call
    D0          \* the due time set at construction

cfgVars == <<pinV, pinI, maxV, mV_A, readRate, id, calI, D0>>
sensorVars == <<VpinVal, IpinVal, ts, Vcc>>
vars == <<clock, vccReads, adcRet, runTime, cfgVars, sensorVars,
          VccLocal, data, status, runs, reads, lastNow, late>>

\* ------------------------------------------------------------------------
\* TimedTask (scheduling primitive)
\* ------------------------------------------------------------------------
\* the task is due at now when now is at or after runTime, compared by
\* unsigned subtraction so that a wrapped counter is tolerated
isDue(now, rt) == Sub32(now, rt).hi < 2^15

\* incRunTime(inc): the due time moves on by inc from the previous due time
incRunTime(rt, inc) == Add32(rt, inc)

\* ------------------------------------------------------------------------
\* PSensor conversions
\* ------------------------------------------------------------------------
\* current() with the quotient rounded down instead of toward zero
currentFloorDiv(IpinVal_, calI_, mV_A_) ==
    ToInt16(((IpinVal_ - 512 + calI_) * 625000) \div (128 * mV_A_))

\* (int16_t)((((int32_t)_IpinVal - 512 + _calI) * 625000) / (int32_t)(128 * _mV_A))
current(IpinVal_, calI_, mV_A_) ==
    ToInt16(TruncDiv((IpinVal_ - 512 + calI_) * 625000, 128 * mV_A_))

\* uint32_t Vcc = readVcc(); return ((uint32_t)_VpinVal * _maxV*125)/128;
\* the uint32_t quotient is converted to the int16_t return type
voltage(VpinVal_, maxV_, Vcc_) ==
    ToInt16((VpinVal_ * maxV_ * 125) \div 128)

\* power_mW = mV * mA / 1000 on a 32-bit signed intermediate
power(mV_, mA_) == TruncDiv(mV_ * mA_, 1000)

\* the record lastReading fills in
Reading(Vcc_) ==
    LET mV == voltage(VpinVal, maxV, Vcc_)
        mA == current(IpinVal, calI, mV_A)
    IN  [id |-> id, ts |-> ts, pinValI |-> IpinVal, pinValV |-> VpinVal,
         mV |-> mV, mA |-> mA, mW |-> power(mV, mA)]

\* ------------------------------------------------------------------------
\* Initial state: PSensor::PSensor(...) : TimedTask(millis())
\* ------------------------------------------------------------------------
InitWith(circuits, clocks) ==
    /\ clock \in clocks
    /\ vccReads = 0
    /\ adcRet = [p \in {0, 1} |-> 0]
    /\ runTime = clock
    /\ D0 = clock
    /\ pinV = 0
    /\ pinI = 1
    /\ \E c \in circuits : maxV = c[1] /\ mV_A = c[2] /\ calI = c[3]
    /\ readRate \in ReadRates
    /\ id = "A"
    /\ VpinVal = 0
    /\ IpinVal = 0
    /\ ts = Zero32
    \* _Vcc is not in the initializer list: 0 for a static object,
    \* indeterminate otherwise
    /\ Vcc \in {0} \cup VccSet
    /\ VccLocal = 0
    /\ data = [id |-> "?", ts |-> Zero32, pinValI |-> 0, pinValV |-> 0,
               mV |-> 0, mA |-> 0, mW |-> 0]
    /\ status = -1
    /\ runs = 0
    /\ reads = 0
    /\ lastNow = Zero32
    /\ late = Zero32

Init == InitWith(Circuits, BootClocks)

InitCalc == InitWith({<<12, 100, 0>>}, {Zero32})

\* ------------------------------------------------------------------------
\* Actions
\* ------------------------------------------------------------------------
\* time passes on the platform: millis() advances; the scheduler polls the
\* task no later than MaxLate after its due time
Tick ==
    /\ \/ ~isDue(clock, runTime)
       \/ Sub32(clock, runTime).lo < MaxLate
    /\ \E d \in TickSteps : clock' = Add32(clock, d)
    /\ UNCHANGED <<vccReads, adcRet, runTime, cfgVars, sensorVars, VccLocal,
                   data, status, runs, reads, lastNow, late>>

\* run with the rescheduling done from now instead: setRunTime(now + _readRate)
RunFromNow(VS, IS, maxRuns) ==
    /\ runs < maxRuns
    /\ isDue(clock, runTime)
    /\ ts' = clock
    /\ \E vcc \in VccSet : Vcc' = vcc
    /\ vccReads' = vccReads + 1
    /\ \E v \in VS, i \in IS :
          /\ adcRet' = (pinV :> v) @@ (pinI :> i)
          /\ VpinVal' = v
          /\ IpinVal' = i
    /\ runTime' = Add32(clock, readRate)
    /\ runs' = runs + 1
    /\ reads' = 0
    /\ lastNow' = clock
    /\ late' = Sub32(clock, runTime)
    /\ UNCHANGED <<clock, cfgVars, VccLocal, data, status>>

\* run without the rescheduling call
RunNoReschedule(VS, IS, maxRuns) ==
    /\ runs < maxRuns
    /\ isDue(clock, runTime)
    /\ ts' = clock
    /\ \E vcc \in VccSet : Vcc' = vcc
    /\ vccReads' = vccReads + 1
    /\ \E v \in VS, i \in IS :
          /\ adcRet' = (pinV :> v) @@ (pinI :> i)
          /\ VpinVal' = v
          /\ IpinVal' = i
    /\ runs' = runs + 1
    /\ reads' = 0
    /\ lastNow' = clock
    /\ late' = Sub32(clock, runTime)
    /\ UNCHANGED <<clock, runTime, cfgVars, VccLocal, data, status>>

\* run with the two analog pins read into the wrong members
RunSwappedPins(VS, IS, maxRuns) ==
    /\ runs < maxRuns
    /\ isDue(clock, runTime)
    /\ ts' = clock
    /\ \E vcc \in VccSet : Vcc' = vcc
    /\ vccReads' = vccReads + 1
    /\ \E v \in VS, i \in IS :
          /\ adcRet' = (pinV :> v) @@ (pinI :> i)
          /\ VpinVal' = i
          /\ IpinVal' = v
    /\ runTime' = incRunTime(runTime, readRate)
    /\ runs' = runs + 1
    /\ reads' = 0
    /\ lastNow' = clock
    /\ late' = Sub32(clock, runTime)
    /\ UNCHANGED <<clock, cfgVars, VccLocal, data, status>>

\* PSensor::run(now), called by the scheduler with now = millis() when the
\* task is due; readVcc() returns a value of VccSet, analogRead a value of
\* VS on the voltage pin and a value of IS on the current pin
RunWith(VS, IS, maxRuns) ==
    /\ runs < maxRuns
    /\ isDue(clock, runTime)
    /\ ts' = clock
    /\ \E vcc \in VccSet : Vcc' = vcc
    /\ vccReads' = vccReads + 1
    /\ \E v \in VS, i \in IS :
          /\ adcRet' = (pinV :> v) @@ (pinI :> i)
          /\ VpinVal' = v
          /\ IpinVal' = i
    /\ runTime' = incRunTime(runTime, readRate)
    /\ runs' = runs + 1
    /\ reads' = 0
    /\ lastNow' = clock
    /\ late' = Sub32(clock, runTime)
    /\ UNCHANGED <<clock, cfgVars, VccLocal, data, status>>

\* lastReading with the commented-out "_ts = 0" line in effect
LastReadingClearsTs ==
    /\ reads < MaxReads
    /\ \E vcc \in VccSet :
          /\ VccLocal' = vcc
          /\ data' = Reading(vcc)
    /\ vccReads' = vccReads + 1
    /\ status' = 0
    /\ reads' = reads + 1
    /\ ts' = Zero32
    /\ UNCHANGED <<clock, adcRet, runTime, cfgVars, VpinVal, IpinVal, Vcc,
                   runs, lastNow, late>>

\* PSensor::lastReading(data): fills the caller's record from the stored
\* samples and returns 0; voltage() calls readVcc() into its local Vcc
LastReading ==
    /\ reads < MaxReads
    /\ \E vcc \in VccSet :
          /\ VccLocal' = vcc
          /\ data' = Reading(vcc)
    /\ vccReads' = vccReads + 1
    /\ status' = 0
    /\ reads' = reads + 1
    /\ UNCHANGED <<clock, adcRet, runTime, cfgVars, sensorVars,
                   runs, lastNow, late>>

Run == RunWith(SampleV, SampleI, MaxRuns)

Next == Tick \/ Run \/ LastReading

Spec == Init /\ [][Next]_vars

\* the conversion pipeline over the whole ADC range of the current pin:
\* one sensor of 100 mV/A without calibration offset, sampled once
RunCalc == RunWith({0}, AllSamples, 1)

NextCalc == Tick \/ RunCalc \/ LastReading

SpecCalc == InitCalc /\ [][NextCalc]_vars

\* ------------------------------------------------------------------------
\* Properties
\* ------------------------------------------------------------------------
\* calibration offsets compared with the sensor's own in the monotonicity check
CalAlt == {-3, 0, 3}

\* C1: a lastReading call made before any run returns a non-zero "no data"
\* status, different from the status returned after a run.
C1_NoDataBeforeRun == (runs = 0 /\ reads > 0) => status # 0

\* C2: after one or more run calls, lastReading reports success and its
\* record holds the constructed id, the now of the latest run and the values
\* analogRead returned for the voltage and the current pin in that run.
C2_ReadingIsLatestRun ==
    (runs > 0 /\ reads > 0) =>
        /\ status = 0
        /\ data.id = id
        /\ data.ts = lastNow
        /\ data.pinValV = adcRet[pinV]
        /\ data.pinValI = adcRet[pinI]

C2_Witness ==
    /\ runs >= 2
    /\ reads > 0
    /\ status = 0
    /\ data.ts = lastNow
    /\ data.pinValV = 1023
    /\ data.pinValI = 512

C5_CurrentMonotone ==
    reads > 0 =>
        \A r2 \in AllSamples, c2 \in CalAlt :
            (r2 + c2 <= data.pinValI + calI) =>
                current(r2, c2, mV_A) <= data.mA

\* C6: the millivolt value stored in the record equals
\* pinValV * maxV * 125 / 128 (integer division); it is 0 at raw sample 0
\* and non-negative at raw sample 1023.
C6_VoltageFormula ==
    reads > 0 =>
        /\ data.mV = (data.pinValV * maxV * 125) \div 128
        /\ (data.pinValV = 0 => data.mV = 0)
        /\ (data.pinValV = 1023 => data.mV >= 0)

\* C7: with 100 mV/A and calibration offset 0, current() is
\* (r - 512) * 625000 / (128 * 100) truncated toward zero for every raw
\* sample r; 0 mA at r = 512, 488 mA at r = 522 (and -48 mA at r = 511).
C7_CurrentAt100 ==
    (reads > 0 /\ mV_A = 100 /\ calI = 0) =>
        /\ data.mA = TruncDiv((data.pinValI - 512) * 625000, 128 * 100)
        /\ (data.pinValI = 512 => data.mA = 0)
        /\ (data.pinValI = 522 => data.mA = 488)
        /\ (data.pinValI = 511 => data.mA = -48)

C7_Witness == reads > 0 /\ runs > 0 /\ data.pinValI = 522 /\ data.mA = 488

C9_TsZeroIffNeverRun ==
    /\ (ts = Zero32) <=> (runs = 0)
    /\ VpinVal \in AllSamples
    /\ IpinVal \in AllSamples

\* C10: readVcc() is called only inside run: the number of supply-voltage
\* acquisitions equals the number of run calls.
C10_VccOnlyInRun == vccReads = runs

====
